---- MODULE Spec2Model ----
(***************************************************************************)
(* A model of @isaacs/cached (src/src/index.ts):                           *)
(*   cached(fn, cache)              the Memoizer                           *)
(*   cachedMtime(fn, statFreqMs, cache, mtimeCache)                        *)
(*                                  the Mtime-Gated Memoizer, with its     *)
(*                                  getMtime(path) query                   *)
(* together with the two collaborators the code calls: the monotonic clock *)
(* (performance.now) and the filesystem (statSync, and the wrapped fn that *)
(* reads the path).                                                        *)
(*                                                                         *)
(* JavaScript values are modelled as sequences of length at most one:      *)
(* << >> is undefined, <<x>> is the value x.                               *)
(***************************************************************************)
EXTENDS Integers, FiniteSets, Sequences, TLC

----------------------------------------------------------------------------
(* Bounds of the model *)

\* the clock is read at multiples of TickMs milliseconds ...
TickMs == 5
\* ... up to MaxTicks of them
MaxTicks == 6
\* the on-disk modification values are 0 .. MaxMtime
MaxMtime == 2
\* the arguments of the plain memoized function are 0 .. MaxArg
MaxArg == 2
\* the plain memoized function is invoked at most MaxCalls times per argument
MaxCalls == 2

----------------------------------------------------------------------------
(* Program constants *)

\* statFreqMs of readCachedTen (and the parameter's default)
StatFreqTen == 10
\* statFreqMs of readCachedZero: negative, always re-checks
StatFreqZero == -100

----------------------------------------------------------------------------
(* JavaScript values and Map *)

Undefined == << >>

\* MapLike.has
Has(m, k) == k \in DOMAIN m

\* MapLike.get: undefined for a missing key
Get(m, k) == IF k \in DOMAIN m THEN m[k] ELSE Undefined

\* MapLike.set
MapSet(m, k, v) == [x \in (DOMAIN m) \cup {k} |-> IF x = k THEN v ELSE m[x]]

\* MapLike.delete
MapDelete(m, k) == [x \in (DOMAIN m) \ {k} |-> m[x]]

\* new Map()
EmptyMap == [x \in {} |-> Undefined]

\* the outcome of invoking a function: it returns a value or it throws
Ret(v) == [threw |-> FALSE, val |-> v]
Throw == [threw |-> TRUE, val |-> Undefined]

----------------------------------------------------------------------------
(* cached(fn, cache): the function it returns, called with arg.            *)
(* f is the outcome fn(arg) has if it is invoked.  The result holds the    *)
(* store after the call, the outcome of the call and whether fn ran.       *)

\* mutant: the result of fn is returned but never stored
CachedNoStore(c, arg, f) ==
    IF Has(c, arg)
    THEN [cache |-> c, threw |-> FALSE, val |-> Get(c, arg), invoked |-> FALSE]
    ELSE [cache |-> c, threw |-> f.threw, val |-> f.val, invoked |-> TRUE]

\* mutant: the store is written before fn is known to have returned
CachedStoreOnThrow(c, arg, f) ==
    IF Has(c, arg)
    THEN [cache |-> c, threw |-> FALSE, val |-> Get(c, arg), invoked |-> FALSE]
    ELSE [cache |-> MapSet(c, arg, f.val), threw |-> f.threw,
          val |-> f.val, invoked |-> TRUE]

\* mutant: a hit is a stored value other than undefined
CachedByValue(c, arg, f) ==
    IF Get(c, arg) # Undefined
    THEN [cache |-> c, threw |-> FALSE, val |-> Get(c, arg), invoked |-> FALSE]
    ELSE IF f.threw
         THEN [cache |-> c, threw |-> TRUE, val |-> Undefined, invoked |-> TRUE]
         ELSE [cache |-> MapSet(c, arg, f.val), threw |-> FALSE,
               val |-> f.val, invoked |-> TRUE]

Cached(c, arg, f) ==
    IF Has(c, arg)
    THEN [cache |-> c, threw |-> FALSE, val |-> Get(c, arg), invoked |-> FALSE]
    ELSE IF f.threw
         THEN [cache |-> c, threw |-> TRUE, val |-> Undefined, invoked |-> TRUE]
         ELSE [cache |-> MapSet(c, arg, f.val), threw |-> FALSE,
               val |-> f.val, invoked |-> TRUE]

----------------------------------------------------------------------------
(* cachedMtime: getMtime(path) of a wrapper built with statFreqMs = freq,  *)
(* run on the stores c (results) and mc (modification values) at clock     *)
(* reading clock.  st is what catcher(() => Number(statSync(path).mtime))  *)
(* yields if it is evaluated: <<m>>, or << >> when statSync throws.        *)
(* stat tells whether statSync was called ("ok", "fail") or not ("none");  *)
(* threw, whether getMtime itself raised.                                  *)

\* [0, -1 * statFreqMs]
Sentinel(freq) == [m |-> 0, t |-> (-1) * freq]

\* mutant: the window test is >= instead of >
GetMtimeAtLeast(freq, path, c, mc, clock, st) ==
    LET cm == IF Has(mc, path) THEN mc[path] ELSE Sentinel(freq)
    IN IF clock - cm.t >= freq
       THEN IF st # Undefined
            THEN [ret |-> st,
                  cache |-> IF st[1] # cm.m THEN MapDelete(c, path) ELSE c,
                  mtimeCache |-> MapSet(mc, path, [m |-> st[1], t |-> clock]),
                  stat |-> "ok", threw |-> FALSE]
            ELSE [ret |-> Undefined,
                  cache |-> MapDelete(c, path),
                  mtimeCache |-> MapDelete(mc, path),
                  stat |-> "fail", threw |-> FALSE]
       ELSE [ret |-> <<cm.m>>, cache |-> c, mtimeCache |-> mc, stat |-> "none",
             threw |-> FALSE]

\* mutant: no window test, statSync on every call
GetMtimeAlwaysStat(freq, path, c, mc, clock, st) ==
    LET cm == IF Has(mc, path) THEN mc[path] ELSE Sentinel(freq)
    IN IF st # Undefined
       THEN [ret |-> st,
             cache |-> IF st[1] # cm.m THEN MapDelete(c, path) ELSE c,
             mtimeCache |-> MapSet(mc, path, [m |-> st[1], t |-> clock]),
             stat |-> "ok", threw |-> FALSE]
       ELSE [ret |-> Undefined,
             cache |-> MapDelete(c, path),
             mtimeCache |-> MapDelete(mc, path),
             stat |-> "fail", threw |-> FALSE]

\* mutant: a successful check is not recorded in the Modification Cache
GetMtimeNoRecord(freq, path, c, mc, clock, st) ==
    LET cm == IF Has(mc, path) THEN mc[path] ELSE Sentinel(freq)
    IN IF clock - cm.t > freq
       THEN IF st # Undefined
            THEN [ret |-> st,
                  cache |-> IF st[1] # cm.m THEN MapDelete(c, path) ELSE c,
                  mtimeCache |-> mc,
                  stat |-> "ok", threw |-> FALSE]
            ELSE [ret |-> Undefined,
                  cache |-> MapDelete(c, path),
                  mtimeCache |-> MapDelete(mc, path),
                  stat |-> "fail", threw |-> FALSE]
       ELSE [ret |-> <<cm.m>>, cache |-> c, mtimeCache |-> mc, stat |-> "none",
             threw |-> FALSE]

\* mutant: a failed check leaves the Result Cache entry in place
GetMtimeKeepOnFail(freq, path, c, mc, clock, st) ==
    LET cm == IF Has(mc, path) THEN mc[path] ELSE Sentinel(freq)
    IN IF clock - cm.t > freq
       THEN IF st # Undefined
            THEN [ret |-> st,
                  cache |-> IF st[1] # cm.m THEN MapDelete(c, path) ELSE c,
                  mtimeCache |-> MapSet(mc, path, [m |-> st[1], t |-> clock]),
                  stat |-> "ok", threw |-> FALSE]
            ELSE [ret |-> Undefined,
                  cache |-> c,
                  mtimeCache |-> MapDelete(mc, path),
                  stat |-> "fail", threw |-> FALSE]
       ELSE [ret |-> <<cm.m>>, cache |-> c, mtimeCache |-> mc, stat |-> "none",
             threw |-> FALSE]

\* mutant: statSync is called bare, its fault leaves getMtime
GetMtimeUnguarded(freq, path, c, mc, clock, st) ==
    LET cm == IF Has(mc, path) THEN mc[path] ELSE Sentinel(freq)
    IN IF clock - cm.t > freq
       THEN IF st # Undefined
            THEN [ret |-> st,
                  cache |-> IF st[1] # cm.m THEN MapDelete(c, path) ELSE c,
                  mtimeCache |-> MapSet(mc, path, [m |-> st[1], t |-> clock]),
                  stat |-> "ok", threw |-> FALSE]
            ELSE [ret |-> Undefined, cache |-> c, mtimeCache |-> mc,
                  stat |-> "fail", threw |-> TRUE]
       ELSE [ret |-> <<cm.m>>, cache |-> c, mtimeCache |-> mc, stat |-> "none",
             threw |-> FALSE]

\* mutant: the check is recorded only when the value has changed
GetMtimeRecordOnChange(freq, path, c, mc, clock, st) ==
    LET cm == IF Has(mc, path) THEN mc[path] ELSE Sentinel(freq)
    IN IF clock - cm.t > freq
       THEN IF st # Undefined
            THEN [ret |-> st,
                  cache |-> IF st[1] # cm.m THEN MapDelete(c, path) ELSE c,
                  mtimeCache |-> IF st[1] # cm.m
                                 THEN MapSet(mc, path, [m |-> st[1], t |-> clock])
                                 ELSE mc,
                  stat |-> "ok", threw |-> FALSE]
            ELSE [ret |-> Undefined,
                  cache |-> MapDelete(c, path),
                  mtimeCache |-> MapDelete(mc, path),
                  stat |-> "fail", threw |-> FALSE]
       ELSE [ret |-> <<cm.m>>, cache |-> c, mtimeCache |-> mc, stat |-> "none",
             threw |-> FALSE]

\* mutant: a call within the window refreshes the recorded timestamp
GetMtimeTouch(freq, path, c, mc, clock, st) ==
    LET cm == IF Has(mc, path) THEN mc[path] ELSE Sentinel(freq)
    IN IF clock - cm.t > freq
       THEN IF st # Undefined
            THEN [ret |-> st,
                  cache |-> IF st[1] # cm.m THEN MapDelete(c, path) ELSE c,
                  mtimeCache |-> MapSet(mc, path, [m |-> st[1], t |-> clock]),
                  stat |-> "ok", threw |-> FALSE]
            ELSE [ret |-> Undefined,
                  cache |-> MapDelete(c, path),
                  mtimeCache |-> MapDelete(mc, path),
                  stat |-> "fail", threw |-> FALSE]
       ELSE [ret |-> <<cm.m>>, cache |-> c,
             mtimeCache |-> MapSet(mc, path, [m |-> cm.m, t |-> clock]),
             stat |-> "none", threw |-> FALSE]

\* mutant: a failed check empties both stores
GetMtimeClearOnFail(freq, path, c, mc, clock, st) ==
    LET cm == IF Has(mc, path) THEN mc[path] ELSE Sentinel(freq)
    IN IF clock - cm.t > freq
       THEN IF st # Undefined
            THEN [ret |-> st,
                  cache |-> IF st[1] # cm.m THEN MapDelete(c, path) ELSE c,
                  mtimeCache |-> MapSet(mc, path, [m |-> st[1], t |-> clock]),
                  stat |-> "ok", threw |-> FALSE]
            ELSE [ret |-> Undefined, cache |-> EmptyMap, mtimeCache |-> EmptyMap,
                  stat |-> "fail", threw |-> FALSE]
       ELSE [ret |-> <<cm.m>>, cache |-> c, mtimeCache |-> mc, stat |-> "none",
             threw |-> FALSE]

GetMtime(freq, path, c, mc, clock, st) ==
    LET cm == IF Has(mc, path) THEN mc[path] ELSE Sentinel(freq)
    IN IF clock - cm.t > freq
       THEN IF st # Undefined
            THEN [ret |-> st,
                  cache |-> IF st[1] # cm.m THEN MapDelete(c, path) ELSE c,
                  mtimeCache |-> MapSet(mc, path, [m |-> st[1], t |-> clock]),
                  stat |-> "ok", threw |-> FALSE]
            ELSE [ret |-> Undefined,
                  cache |-> MapDelete(c, path),
                  mtimeCache |-> MapDelete(mc, path),
                  stat |-> "fail", threw |-> FALSE]
       ELSE [ret |-> <<cm.m>>, cache |-> c, mtimeCache |-> mc, stat |-> "none",
             threw |-> FALSE]

\* mutant: when the check fails the wrapper returns undefined at once
CachedMtimeShortCircuit(freq, path, c, mc, clock, st, f) ==
    LET g == GetMtime(freq, path, c, mc, clock, st)
        r == Cached(g.cache, path, f)
    IN IF g.threw \/ g.stat = "fail"
       THEN [cache |-> g.cache, mtimeCache |-> g.mtimeCache, stat |-> g.stat,
             threw |-> g.threw, val |-> Undefined, invoked |-> FALSE]
       ELSE [cache |-> r.cache, mtimeCache |-> g.mtimeCache, stat |-> g.stat,
             threw |-> r.threw, val |-> r.val, invoked |-> r.invoked]

\* the function cachedMtime returns: getMtime(path), then cfn(path)
CachedMtime(freq, path, c, mc, clock, st, f) ==
    LET g == GetMtime(freq, path, c, mc, clock, st)
        r == Cached(g.cache, path, f)
    IN IF g.threw
       THEN [cache |-> g.cache, mtimeCache |-> g.mtimeCache, stat |-> g.stat,
             threw |-> TRUE, val |-> Undefined, invoked |-> FALSE]
       ELSE [cache |-> r.cache, mtimeCache |-> g.mtimeCache, stat |-> g.stat,
             threw |-> r.threw, val |-> r.val, invoked |-> r.invoked]

----------------------------------------------------------------------------
(* The state *)

VARIABLES
    now,        \* performance.now(), in ms
    disk,       \* path -> the file: [exists, mtime, content]
    cache,      \* the Result Cache shared by the gated wrappers
    mtimeCache, \* the Modification Cache shared by the gated wrappers
    origin,     \* history: path -> how the Result Cache entry was produced
    lastStat,   \* history: path -> the last physical statSync of it
    own,        \* history: <<wrapper, path>> -> its last return in its window
    last,       \* history: the gated call made by the last step, if any:
                \* val is what a wrapped call returned, mret what getMtime did
    memo,       \* the store of the plain cached(f)
    firstRet,   \* history: arg -> the first value a call of cached(f) returned
    fcalls,     \* history: arg -> number of invocations of f
    mlast,      \* history: the call of cached(f) made by the last step, if any
    stores,     \* the Map objects: reference -> contents
    held,       \* the reference the caller passed to cached(fn, store)
    used,       \* the reference the returned function reads and writes
    exposed,    \* the reference found in the returned function's .cache
    slast       \* history: the call of cached(fn, store) made by the last step

vars == <<now, disk, cache, mtimeCache, origin, lastStat, own, last,
          memo, firstRet, fcalls, mlast, stores, held, used, exposed, slast>>
gatedVars == <<now, disk, cache, mtimeCache, origin, lastStat, own, last>>
memoVars == <<memo, firstRet, fcalls, mlast>>
storeVars == <<stores, held, used, exposed, slast>>

\* the two wrappers of the test, sharing both stores
Wrappers == {"readCachedZero", "readCachedTen"}
StatFreqMs(w) == IF w = "readCachedTen" THEN StatFreqTen ELSE StatFreqZero

Paths == {"file"}
Contents == {"contents", "new contents"}
Mtimes == 0 .. MaxMtime
NoFile == [exists |-> FALSE, mtime |-> 0, content |-> "ENOENT"]
File(m, c) == [exists |-> TRUE, mtime |-> m, content |-> c]

\* catcher(() => Number(statSync(path).mtime))
StatSync(d) == IF d.exists THEN <<d.mtime>> ELSE Undefined

\* fn(path): readFileSync returns the content, and throws on a missing
\* path; an arbitrary fn may also fail on a path that exists, or return a
\* value for a path that does not
FnOutcomes(d) ==
    IF d.exists THEN {Ret(<<d.content>>), Throw}
    ELSE {Throw, Ret(<<"no such file">>)}

\* w.getMtime(p), called in the current state
Query(w, p) ==
    GetMtime(StatFreqMs(w), p, cache, mtimeCache, now, StatSync(disk[p]))

\* w(p), called in the current state, fn(p) having outcome f
Call(w, p, f) ==
    CachedMtime(StatFreqMs(w), p, cache, mtimeCache, now, StatSync(disk[p]), f)

Args == 0 .. MaxArg
\* f(a): the test's a * a; other functions return something else,
\* return undefined, or throw
FOutcomes(a) == {Ret(<<a * a>>), Ret(<<a + 1>>), Ret(Undefined), Throw}

\* cached(f)(a), called in the current state, f(a) having outcome f
MemoCall(a, f) == Cached(memo, a, f)

Idle == [kind |-> "idle", w |-> "", path |-> "", stat |-> "none",
         invoked |-> FALSE, threw |-> FALSE, val |-> Undefined,
         mret |-> Undefined, hadRes |-> FALSE, hadMt |-> FALSE,
         ownPrev |-> Undefined, follows |-> ""]

MemoIdle == [kind |-> "idle", arg |-> 0, invoked |-> FALSE, threw |-> FALSE,
             val |-> Undefined]

Files == {NoFile} \cup {File(m, c) : m \in Mtimes, c \in Contents}

\* the Map objects there are: the one the caller made and supplied, and the
\* one the default parameter value new Map() would make
Refs == {"supplied", "fresh"}

\* mutant: the returned function works on a Map of its own
CachedStoreOwn(arg) == "fresh"

\* cached(fn, cache): the object bound to the parameter cache, which the
\* returned function closes over and which is assigned to its .cache
CachedStore(arg) == arg

\* const c = cached(fn, store), store being the caller's (still empty) Map
StoreInit ==
    /\ stores = [r \in Refs |-> EmptyMap]
    /\ held = "supplied"
    /\ used = CachedStore(held)
    /\ exposed = CachedStore(held)
    /\ slast = MemoIdle

Init ==
    /\ now = TickMs
    /\ disk \in [Paths -> Files]
    /\ cache = EmptyMap
    /\ mtimeCache = EmptyMap
    /\ origin = EmptyMap
    /\ lastStat = EmptyMap
    /\ own = EmptyMap
    /\ last = Idle
    /\ memo = EmptyMap
    /\ firstRet = EmptyMap
    /\ fcalls = [a \in Args |-> 0]
    /\ mlast = MemoIdle
    /\ StoreInit

\* the plain memoizer: no file is involved
InitMemo ==
    /\ Init
    /\ disk = [p \in Paths |-> NoFile]

----------------------------------------------------------------------------
(* History bookkeeping *)

\* own after the clock reads t: a wrapper's own last return is kept while
\* its own window, measured from that call, has not elapsed
OwnAt(o, t) ==
    [k \in {x \in DOMAIN o : t - o[x].t <= StatFreqMs(x[1])} |-> o[k]]

\* a wrapped call whose check saw a changed modification value, evicted
\* the result and computed it anew
Detected(l) ==
    /\ l.kind = "wrapped"
    /\ l.stat = "ok"
    /\ l.hadRes
    /\ l.invoked
    /\ ~l.threw

\* origin after a call of wrapper w on path p with result r
OriginAfter(w, p, r) ==
    LET kept == [x \in (DOMAIN origin) \cap (DOMAIN r.cache) |-> origin[x]]
    IN IF r.invoked /\ ~r.threw
       THEN MapSet(kept, p, [m |-> StatSync(disk[p]), by |-> w])
       ELSE kept

LastStatAfter(w, p, stat) ==
    IF stat = "none" THEN lastStat
    ELSE MapSet(lastStat, p, [t |-> now, ok |-> (stat = "ok"), by |-> w])

----------------------------------------------------------------------------
(* The environment *)

\* the clock advances
Tick ==
    /\ now + TickMs <= MaxTicks * TickMs
    /\ now' = now + TickMs
    /\ own' = OwnAt(own, now')
    /\ last' = Idle
    /\ UNCHANGED <<disk, cache, mtimeCache, origin, lastStat>>
    /\ UNCHANGED memoVars
    /\ UNCHANGED storeVars

\* writeFileSync / utimesSync: the file gets a new content, a new
\* modification value, or both (or is created)
WriteFile(p, m, c) ==
    /\ disk[p] # File(m, c)
    /\ disk' = [disk EXCEPT ![p] = File(m, c)]
    /\ last' = Idle
    /\ UNCHANGED <<now, cache, mtimeCache, origin, lastStat, own>>
    /\ UNCHANGED memoVars
    /\ UNCHANGED storeVars

\* unlinkSync
Unlink(p) ==
    /\ disk[p].exists
    /\ disk' = [disk EXCEPT ![p] = NoFile]
    /\ last' = Idle
    /\ UNCHANGED <<now, cache, mtimeCache, origin, lastStat, own>>
    /\ UNCHANGED memoVars
    /\ UNCHANGED storeVars

----------------------------------------------------------------------------
(* The calls *)

\* wrapper w is called with path p
CallWrapped(w, p) ==
    \E f \in FnOutcomes(disk[p]) :
        LET r == Call(w, p, f)
        IN /\ cache' = r.cache
           /\ mtimeCache' = r.mtimeCache
           /\ origin' = OriginAfter(w, p, r)
           /\ lastStat' = LastStatAfter(w, p, r.stat)
           /\ own' = OwnAt(IF r.threw THEN MapDelete(own, <<w, p>>)
                           ELSE MapSet(own, <<w, p>>, [t |-> now, val |-> r.val]),
                           now)
           /\ last' = [kind |-> "wrapped", w |-> w, path |-> p, stat |-> r.stat,
                       invoked |-> r.invoked, threw |-> r.threw, val |-> r.val,
                       mret |-> Undefined,
                       hadRes |-> Has(cache, p), hadMt |-> Has(mtimeCache, p),
                       ownPrev |-> IF Has(own, <<w, p>>) THEN own[<<w, p>>].val
                                   ELSE Undefined,
                       follows |-> IF Detected(last) /\ last.path = p
                                   THEN last.w ELSE ""]
           /\ UNCHANGED <<now, disk>>
           /\ UNCHANGED memoVars
           /\ UNCHANGED storeVars

\* w.getMtime(p) is called directly
CallGetMtime(w, p) ==
    LET g == Query(w, p)
    IN /\ cache' = g.cache
       /\ mtimeCache' = g.mtimeCache
       /\ origin' = [x \in (DOMAIN origin) \cap (DOMAIN g.cache) |-> origin[x]]
       /\ lastStat' = LastStatAfter(w, p, g.stat)
       /\ last' = [kind |-> "getMtime", w |-> w, path |-> p, stat |-> g.stat,
                   invoked |-> FALSE, threw |-> g.threw, val |-> Undefined,
                   mret |-> g.ret,
                   hadRes |-> Has(cache, p), hadMt |-> Has(mtimeCache, p),
                   ownPrev |-> Undefined, follows |-> ""]
       /\ UNCHANGED <<now, disk, own>>
       /\ UNCHANGED memoVars
       /\ UNCHANGED storeVars

\* the plain cached(f) is called with argument a
CallCached(a) ==
    \E f \in FOutcomes(a) :
        LET r == MemoCall(a, f)
        IN /\ r.invoked => fcalls[a] < MaxCalls
           /\ memo' = r.cache
           /\ fcalls' = IF r.invoked THEN [fcalls EXCEPT ![a] = @ + 1] ELSE fcalls
           /\ firstRet' = IF ~r.threw /\ ~Has(firstRet, a)
                          THEN MapSet(firstRet, a, r.val) ELSE firstRet
           /\ mlast' = [kind |-> "cached", arg |-> a, invoked |-> r.invoked,
                        threw |-> r.threw, val |-> r.val]
           /\ UNCHANGED gatedVars
           /\ UNCHANGED storeVars

\* c(a) is called, c = cached(fn, store)
CallStored(a) ==
    \E f \in FOutcomes(a) :
        LET r == Cached(stores[used], a, f)
        IN /\ stores' = [stores EXCEPT ![used] = r.cache]
           /\ slast' = [kind |-> "cached", arg |-> a, invoked |-> r.invoked,
                        threw |-> r.threw, val |-> r.val]
           /\ UNCHANGED <<held, used, exposed>>
           /\ UNCHANGED gatedVars
           /\ UNCHANGED memoVars

\* the value a caller pre-seeds for key a: one fn(a) does not produce
Seed(a) == <<a + 10>>

\* the caller, holding the store, does store.set(a, v)
StoreSet(a) ==
    /\ stores' = [stores EXCEPT ![held] = MapSet(@, a, Seed(a))]
    /\ slast' = MemoIdle
    /\ UNCHANGED <<held, used, exposed>>
    /\ UNCHANGED gatedVars
    /\ UNCHANGED memoVars

\* the caller, holding the store, does store.delete(a)
StoreDelete(a) ==
    /\ Has(stores[held], a)
    /\ stores' = [stores EXCEPT ![held] = MapDelete(@, a)]
    /\ slast' = MemoIdle
    /\ UNCHANGED <<held, used, exposed>>
    /\ UNCHANGED gatedVars
    /\ UNCHANGED memoVars

----------------------------------------------------------------------------
(* The specifications *)

\* the gated wrappers, the clock and the filesystem
Next ==
    \/ Tick
    \/ \E p \in Paths, m \in Mtimes, c \in Contents : WriteFile(p, m, c)
    \/ \E p \in Paths : Unlink(p)
    \/ \E w \in Wrappers, p \in Paths : CallWrapped(w, p)
    \/ \E w \in Wrappers, p \in Paths : CallGetMtime(w, p)

Spec == Init /\ [][Next]_vars

\* The same program with the clock read from its origin on:
\* performance.now() is the time elapsed since performance.timeOrigin, a
\* number >= 0, and 0 is what it reads at the origin (and what a clock
\* under test control reads until it is advanced).
InitOrigin ==
    /\ now = 0
    /\ disk \in [Paths -> Files]
    /\ cache = EmptyMap
    /\ mtimeCache = EmptyMap
    /\ origin = EmptyMap
    /\ lastStat = EmptyMap
    /\ own = EmptyMap
    /\ last = Idle
    /\ memo = EmptyMap
    /\ firstRet = EmptyMap
    /\ fcalls = [a \in Args |-> 0]
    /\ mlast = MemoIdle
    /\ StoreInit

SpecOrigin == InitOrigin /\ [][Next]_vars

\* The gated wrappers used on two paths, at one clock reading: the first
\* file is rewritten, touched and deleted, the second one may be deleted.
AllPaths == Paths \cup {"other"}

InitFrame ==
    /\ now = TickMs
    /\ disk = [p \in AllPaths |-> File(0, "contents")]
    /\ cache = EmptyMap
    /\ mtimeCache = EmptyMap
    /\ origin = EmptyMap
    /\ lastStat = EmptyMap
    /\ own = EmptyMap
    /\ last = Idle
    /\ memo = EmptyMap
    /\ firstRet = EmptyMap
    /\ fcalls = [a \in Args |-> 0]
    /\ mlast = MemoIdle
    /\ StoreInit

NextFrame ==
    \/ \E p \in Paths, m \in Mtimes : WriteFile(p, m, "contents")
    \/ \E p \in AllPaths : Unlink(p)
    \/ \E w \in Wrappers, p \in AllPaths : CallWrapped(w, p)
    \/ \E w \in Wrappers, p \in AllPaths : CallGetMtime(w, p)

SpecFrame == InitFrame /\ [][NextFrame]_vars

\* the plain memoizer
NextMemo == \E a \in Args : CallCached(a)

SpecMemo == InitMemo /\ [][NextMemo]_vars

\* the memoizer on a store its caller supplied and keeps using
NextStore ==
    \/ \E a \in Args : CallStored(a)
    \/ \E a \in Args : StoreSet(a)
    \/ \E a \in Args : StoreDelete(a)

SpecStore == InitMemo /\ [][NextStore]_vars

\* The same program under a clock that never stops.  performance.now() is
\* only ever compared with stored readings of itself, so a tick is modelled
\* by moving every stored reading TickMs into the past and leaving now
\* where it is; a reading older than every window is not aged further.
Oldest == now - (StatFreqTen + TickMs)
Aged(t) == IF t - TickMs < Oldest THEN Oldest ELSE t - TickMs

TickLive ==
    /\ mtimeCache' = [p \in DOMAIN mtimeCache |->
                         [mtimeCache[p] EXCEPT !.t = Aged(@)]]
    /\ lastStat' = [p \in DOMAIN lastStat |-> [lastStat[p] EXCEPT !.t = Aged(@)]]
    /\ own' = OwnAt([k \in DOMAIN own |-> [own[k] EXCEPT !.t = Aged(@)]], now)
    /\ last' = Idle
    /\ UNCHANGED <<now, disk, cache, origin>>
    /\ UNCHANGED memoVars
    /\ UNCHANGED storeVars

\* one rate-limited wrapper, its getMtime, the clock and the filesystem
NextLive ==
    \/ TickLive
    \/ \E p \in Paths, m \in Mtimes, c \in Contents : WriteFile(p, m, c)
    \/ \E p \in Paths : Unlink(p)
    \/ \E p \in Paths : CallWrapped("readCachedTen", p)
    \/ \E p \in Paths : CallGetMtime("readCachedTen", p)

\* the clock keeps advancing and the wrapper keeps being called
SpecLive ==
    /\ Init
    /\ [][NextLive]_vars
    /\ WF_vars(TickLive)
    /\ \A p \in Paths : WF_vars(CallWrapped("readCachedTen", p))


----------------------------------------------------------------------------
(* The Memoizer: claims checked under SpecMemo *)

\* C1: once a call of cached(f) with argument a has returned, every further
\* call with a leaves f alone (so two calls invoke f at most once), returns
\* the value the first call returned, and cache.get(a) is that value too.
C1_SecondCallServedFromCache ==
    \A a \in Args :
        Has(firstRet, a) =>
            /\ Get(memo, a) = firstRet[a]
            /\ \A f \in FOutcomes(a) :
                   LET r == MemoCall(a, f)
                   IN /\ ~r.invoked
                      /\ ~r.threw
                      /\ r.val = firstRet[a]
                      /\ Get(r.cache, a) = firstRet[a]

\* C1 witness: a second call was served from the store; f ran once
C1_Witness ==
    /\ mlast.kind = "cached"
    /\ ~mlast.invoked
    /\ Has(firstRet, mlast.arg)
    /\ mlast.val = firstRet[mlast.arg]
    /\ Get(memo, mlast.arg) = mlast.val
    /\ fcalls[mlast.arg] = 1

\* C9: when f throws for a, the call throws, the store is what it was and
\* has no entry for a; after a call that threw, the next call with the same
\* argument invokes f again.
C9_FaultPropagatesNothingStored ==
    \A a \in Args :
        \A f \in FOutcomes(a) :
            LET r == MemoCall(a, f)
            IN /\ (~Has(memo, a) /\ f.threw) =>
                      /\ r.invoked
                      /\ r.threw
                      /\ r.cache = memo
                      /\ ~Has(r.cache, a)
               /\ (mlast.kind = "cached" /\ mlast.threw /\ mlast.arg = a) =>
                      /\ ~Has(memo, a)
                      /\ r.invoked

\* C9 witness: f threw twice for the same argument, nothing was stored for
\* it, and the entries of the other arguments are still there
C9_Witness ==
    /\ mlast.kind = "cached"
    /\ mlast.threw
    /\ fcalls[mlast.arg] = 2
    /\ ~Has(memo, mlast.arg)
    /\ DOMAIN memo # {}

----------------------------------------------------------------------------
(* The Mtime-Gated Memoizer: claims checked under Spec *)

\* the rate-limit window of wrapper w has elapsed for path p:
\* now - lastCheckTimestamp > statFreqMs
WindowElapsed(w, p) ==
    LET t == IF Has(mtimeCache, p) THEN mtimeCache[p].t
             ELSE Sentinel(StatFreqMs(w)).t
    IN now - t > StatFreqMs(w)

\* C2: if the Modification Cache holds the value M for a path and the Result
\* Cache holds an entry for it, that entry was produced by a call of fn made
\* while the on-disk modification value of the path was M.
C2_ResultProducedUnderRecordedMtime ==
    \A p \in Paths :
        (Has(mtimeCache, p) /\ Has(cache, p)) =>
            origin[p].m = <<mtimeCache[p].m>>

\* C3: when the Result Cache holds a result read from the file and the
\* file's content and modification value have both changed since, a call
\* made once the window has elapsed invokes fn in that call and returns the
\* new content.
C3_ChangeSeenOnceWindowElapsed ==
    \A w \in Wrappers, p \in Paths :
        \A f \in FnOutcomes(disk[p]) :
            ( /\ Has(cache, p)
              /\ disk[p].exists
              /\ origin[p].m # Undefined
              /\ origin[p].m # <<disk[p].mtime>>
              /\ cache[p] # <<disk[p].content>>
              /\ WindowElapsed(w, p)
              /\ ~f.threw )
            => LET r == Call(w, p, f)
               IN /\ r.stat = "ok"
                  /\ r.invoked
                  /\ ~r.threw
                  /\ r.val = <<disk[p].content>>

C6_SharedStoresObserveEachOther ==
    \A w \in Wrappers, p \in Paths :
        \A f \in FnOutcomes(disk[p]) :
            (Detected(last) /\ last.path = p /\ last.w # w)
            => LET r == Call(w, p, f)
               IN /\ ~r.threw
                  /\ ~r.invoked
                  /\ r.val = last.val
                  /\ origin[p].by = last.w
                  /\ origin[p].m = StatSync(disk[p])

\* C6 witness: readCachedTen, whose own previous call returned another
\* value less than its interval ago, made no check and returned the result
\* readCachedZero had just recomputed
C6_Witness ==
    /\ last.kind = "wrapped"
    /\ last.w = "readCachedTen"
    /\ last.follows = "readCachedZero"
    /\ last.stat = "none"
    /\ ~last.invoked
    /\ ~last.threw
    /\ last.ownPrev # Undefined
    /\ last.ownPrev # last.val
    /\ last.val = <<disk[last.path].content>>
    /\ origin[last.path].by = "readCachedZero"

----------------------------------------------------------------------------
(* Claims checked under SpecLive *)

\* the last step was a wrapped call for p that returned a result not
\* computed under the path's current on-disk state
StaleServed(p) ==
    /\ last.kind = "wrapped"
    /\ last.path = p
    /\ ~last.threw
    /\ origin[p].m # StatSync(disk[p])

\* C10: with the clock advancing and the wrapper being called again and
\* again, once the file has stopped changing, calls that return a result
\* not computed under the file's on-disk state come to an end.
C10_StaleNotServedForever ==
    \A p \in Paths, d \in Files :
        <>[](disk[p] = d) => <>[](~StaleServed(p))

----------------------------------------------------------------------------
(* Claims checked under SpecOrigin *)

\* the values of statFreqMs: negative, zero, positive
Freqs == {StatFreqZero, 0, StatFreqTen}

\* C11: for a path with no Modification Cache entry, getMtime of a wrapper
\* built with any statFreqMs queries the filesystem, at every clock reading.
C11_FirstCallAlwaysChecks ==
    \A freq \in Freqs, p \in Paths :
        ~Has(mtimeCache, p)
        => GetMtime(freq, p, cache, mtimeCache, now, StatSync(disk[p])).stat
               # "none"

----------------------------------------------------------------------------
(* Claims checked under SpecStore *)

\* C12: the returned function reads and writes the store object its caller
\* supplied, and .cache is that object; while the store holds an entry for
\* k, however it got there, a call with k does not invoke fn, returns the
\* entry and leaves the store as it is; a call that misses and returns
\* leaves its result in the caller's store.
C12_SuppliedStoreIsTheStore ==
    /\ used = held
    /\ exposed = held
    /\ \A a \in Args : \A f \in FOutcomes(a) :
           LET r == Cached(stores[used], a, f)
           IN /\ Has(stores[held], a)
                 => /\ ~r.invoked
                    /\ ~r.threw
                    /\ r.val = stores[held][a]
                    /\ r.cache = stores[held]
              /\ (~Has(stores[held], a) /\ ~f.threw)
                 => /\ r.invoked
                    /\ [stores EXCEPT ![used] = r.cache][held][a] = f.val
    /\ stores["fresh"] = EmptyMap

\* C12 witness: a call returned the value its caller had pre-seeded, fn
\* not having been invoked, and the entry is still in the caller's store
C12_Witness ==
    /\ slast.kind = "cached"
    /\ ~slast.invoked
    /\ ~slast.threw
    /\ slast.val = Seed(slast.arg)
    /\ Get(stores[held], slast.arg) = Seed(slast.arg)
    /\ exposed = held

----------------------------------------------------------------------------
(* Claims checked under SpecMemo, continued *)

\* C13: when the store has the key a and the value stored under it is
\* undefined, a call with a does not invoke f and returns undefined; an f
\* that returned undefined for a has left a key in the store.
C13_PresenceDecidesNotValue ==
    \A a \in Args :
        /\ (Has(memo, a) /\ memo[a] = Undefined)
           => \A f \in FOutcomes(a) :
                  LET r == MemoCall(a, f)
                  IN /\ ~r.invoked
                     /\ ~r.threw
                     /\ r.val = Undefined
                     /\ r.cache = memo
        /\ (Has(firstRet, a) /\ firstRet[a] = Undefined) => Has(memo, a)

\* C13 witness: f returned undefined once, and the next call returned
\* undefined without invoking it
C13_Witness ==
    /\ mlast.kind = "cached"
    /\ ~mlast.invoked
    /\ ~mlast.threw
    /\ mlast.val = Undefined
    /\ Has(memo, mlast.arg)
    /\ fcalls[mlast.arg] = 1

----------------------------------------------------------------------------
(* The Mtime-Gated Memoizer: claims checked under Spec, continued *)

----------------------------------------------------------------------------
(* Claims checked under SpecOrigin, continued *)

\* C15: a wrapper built with a negative statFreqMs queries the filesystem
\* in every getMtime call and in every wrapped call, whatever the
\* Modification Cache holds and whoever recorded it.
C15_NegativeIntervalAlwaysChecks ==
    \A w \in Wrappers, p \in Paths :
        StatFreqMs(w) < 0
        => /\ Query(w, p).stat # "none"
           /\ \A f \in FnOutcomes(disk[p]) : Call(w, p, f).stat # "none"

----------------------------------------------------------------------------
(* getMtime: claims checked under Spec *)

\* the modification value getMtime compares a stat result with: the one in
\* the Modification Cache, or the sentinel's 0
PrevMtime(p) == IF Has(mtimeCache, p) THEN mtimeCache[p].m ELSE Sentinel(0).m

\* C16: when getMtime makes a query and it succeeds with m, it returns m,
\* the Modification Cache entry becomes (m, now), and the Result Cache entry
\* is gone exactly when m differs from the previously cached value (or from
\* 0 when there was none); when m is equal the Result Cache is unchanged.
C16_SuccessfulCheckFrame ==
    \A w \in Wrappers, p \in Paths :
        (WindowElapsed(w, p) /\ StatSync(disk[p]) # Undefined)
        => LET g == Query(w, p)
               m == disk[p].mtime
           IN /\ g.stat = "ok"
              /\ ~g.threw
              /\ g.ret = <<m>>
              /\ Has(g.mtimeCache, p)
              /\ g.mtimeCache[p] = [m |-> m, t |-> now]
              /\ g.mtimeCache = MapSet(mtimeCache, p, [m |-> m, t |-> now])
              /\ Has(g.cache, p) = (Has(cache, p) /\ m = PrevMtime(p))
              /\ (m = PrevMtime(p)) => g.cache = cache
              /\ (m # PrevMtime(p)) => g.cache = MapDelete(cache, p)

\* C16 witness: a getMtime queried, found the value it had on record, kept
\* the cached result and recorded the check at the present clock reading
C16_Witness ==
    /\ last.kind = "getMtime"
    /\ last.stat = "ok"
    /\ last.hadMt
    /\ last.hadRes
    /\ Has(cache, last.path)
    /\ last.mret = <<disk[last.path].mtime>>
    /\ mtimeCache[last.path] = [m |-> disk[last.path].mtime, t |-> now]
    /\ now > TickMs

\* C17: getMtime called while now - lastCheckTimestamp <= statFreqMs
\* returns the recorded modification value, makes no query, and leaves the
\* Modification Cache, timestamp included, and the Result Cache as they are.
C17_WithinWindowFrame ==
    \A w \in Wrappers, p \in Paths :
        (Has(mtimeCache, p) /\ now - mtimeCache[p].t <= StatFreqMs(w))
        => Query(w, p) = [ret |-> <<mtimeCache[p].m>>, cache |-> cache,
                          mtimeCache |-> mtimeCache, stat |-> "none",
                          threw |-> FALSE]

\* C17 witness: within the window getMtime answered with the recorded
\* value of a file deleted since, a later clock reading than the recorded
\* one, and both entries are still there
C17_Witness ==
    /\ last.kind = "getMtime"
    /\ last.stat = "none"
    /\ last.hadMt
    /\ last.hadRes
    /\ ~disk[last.path].exists
    /\ Has(cache, last.path)
    /\ Has(mtimeCache, last.path)
    /\ last.mret = <<mtimeCache[last.path].m>>
    /\ mtimeCache[last.path].t < now

----------------------------------------------------------------------------
(* The wrapped call: claims checked under Spec *)

\* C18: right after a wrapped call that queried the filesystem, got the
\* value m and returned, the Result Cache entry it returned was produced by
\* an invocation of fn made while the on-disk modification value was m.
C18_ReturnedValueProducedUnderCheckedMtime ==
    (last.kind = "wrapped" /\ last.stat = "ok" /\ ~last.threw)
    => /\ Has(origin, last.path)
       /\ origin[last.path].m = <<mtimeCache[last.path].m>>
       /\ origin[last.path].m = StatSync(disk[last.path])

\* C19: a wrapped call for a path that has no Modification Cache entry,
\* the Result Cache holding an entry for it, invokes fn and does not
\* return that entry, whatever the file's modification value.
C19_FirstCheckEvictsOlderResult ==
    \A w \in Wrappers, p \in Paths :
        \A f \in FnOutcomes(disk[p]) :
            (~Has(mtimeCache, p) /\ Has(cache, p))
            => LET r == Call(w, p, f)
               IN /\ r.invoked
                  /\ r.threw = f.threw
                  /\ r.val = f.val

----------------------------------------------------------------------------
(* Claims checked under SpecFrame *)

\* C20: a wrapped call or a getMtime call for a path p, whether the check
\* succeeds, fails or is not made and whether fn returns or throws, leaves
\* the Result Cache and Modification Cache entries of every other path as
\* they are.
C20_OtherPathsUntouched ==
    \A w \in Wrappers, p \in AllPaths, q \in AllPaths :
        (q # p)
        => /\ LET g == Query(w, p)
              IN /\ Has(g.cache, q) = Has(cache, q)
                 /\ Has(cache, q) => g.cache[q] = cache[q]
                 /\ Has(g.mtimeCache, q) = Has(mtimeCache, q)
                 /\ Has(mtimeCache, q) => g.mtimeCache[q] = mtimeCache[q]
           /\ \A f \in FnOutcomes(disk[p]) :
                  LET r == Call(w, p, f)
                  IN /\ Has(r.cache, q) = Has(cache, q)
                     /\ Has(cache, q) => r.cache[q] = cache[q]
                     /\ Has(r.mtimeCache, q) = Has(mtimeCache, q)
                     /\ Has(mtimeCache, q) => r.mtimeCache[q] = mtimeCache[q]

\* C20 witness: a wrapped call whose check failed evicted its path from
\* both stores and fn threw, while another path has an entry in each store
C20_Witness ==
    /\ last.kind = "wrapped"
    /\ last.stat = "fail"
    /\ last.hadRes
    /\ last.hadMt
    /\ last.threw
    /\ ~Has(cache, last.path)
    /\ ~Has(mtimeCache, last.path)
    /\ \E q \in AllPaths \ {last.path} : Has(cache, q) /\ Has(mtimeCache, q)

====
